---- MODULE Spec2Model ----
(***************************************************************************)
(* A model of hello.py (the greeting lookup) and rest.py (the Resource     *)
(* base class doing RESTful dispatch on the HTTP method name).             *)
(*                                                                         *)
(* Python strings are modelled as sequences of one-character strings, so   *)
(* that lower(), upper(), startswith(), join() and format() are computed   *)
(* character by character.                                                 *)
(***************************************************************************)
EXTENDS Integers, Sequences, FiniteSets, TLC

----------------------------------------------------------------------------
(* Characters and the string primitives the two files use.                 *)

\* The characters that occur, in increasing code point order.
CodePoints ==
    << " ", "!", "'", ",", "0",
       "A", "B", "C", "D", "E", "F", "G", "H", "I", "J", "K", "L", "M",
       "N", "O", "P", "Q", "R", "S", "T", "U", "V", "W", "X", "Y", "Z",
       "_",
       "a", "b", "c", "d", "e", "f", "g", "h", "i", "j", "k", "l", "m",
       "n", "o", "p", "q", "r", "s", "t", "u", "v", "w", "x", "y", "z",
       "{", "}" >>

\* ord(c), up to the order it induces.
OrdTable ==
    [c \in {CodePoints[i] : i \in DOMAIN CodePoints} |->
        CHOOSE i \in DOMAIN CodePoints : CodePoints[i] = c]

Ord(c) == OrdTable[c]

OrdA == Ord("A")
OrdZ == Ord("Z")
Orda == Ord("a")
Ordz == Ord("z")

\* str.lower() and str.upper(), one character at a time.
LowerChar(c) ==
    IF Ord(c) >= OrdA /\ Ord(c) <= OrdZ
    THEN CodePoints[Ord(c) - OrdA + Orda]
    ELSE c

UpperChar(c) ==
    IF Ord(c) >= Orda /\ Ord(c) <= Ordz
    THEN CodePoints[Ord(c) - Orda + OrdA]
    ELSE c

lower(s) == [i \in DOMAIN s |-> LowerChar(s[i])]

upper(s) == [i \in DOMAIN s |-> UpperChar(s[i])]

\* s.startswith(p)
startswith(s, p) == Len(s) >= Len(p) /\ SubSeq(s, 1, Len(p)) = p

\* Python's ordering of strings: lexicographic by code point.
RECURSIVE StrLess(_, _)
StrLess(a, b) ==
    IF b = << >> THEN FALSE
    ELSE IF a = << >> THEN TRUE
    ELSE IF Head(a) # Head(b) THEN Ord(Head(a)) < Ord(Head(b))
    ELSE StrLess(Tail(a), Tail(b))

\* sorted(iterable) on a tuple of strings.
sorted(t) == SortSeq(t, StrLess)

\* sep.join(list)
RECURSIVE join(_, _)
join(sep, list) ==
    IF list = << >> THEN << >>
    ELSE IF Len(list) = 1 THEN list[1]
    ELSE list[1] \o sep \o join(sep, Tail(list))

\* The elements of a sequence.
Range(s) == {s[i] : i \in DOMAIN s}

----------------------------------------------------------------------------
(* hello.py                                                                *)

\* The dict literal of hello(): <<key, value>> pairs.
GreetingTable ==
    <<
       << <<"c", "h", "i", "n", "e", "s", "e">>,
          <<"n", "i", " ", "h", "a", "o">> >>,
       << <<"c", "r", "o", "a", "t", "i", "a", "n">>,
          <<"b", "o", "k">> >>,
       << <<"e", "n", "g", "l", "i", "s", "h">>,
          <<"h", "e", "l", "l", "o">> >>,
       << <<"f", "i", "l", "i", "p", "i", "n", "o">>,
          <<"k", "u", "m", "u", "s", "t", "a">> >>,
       << <<"g", "e", "r", "m", "a", "n">>,
          <<"h", "a", "l", "l", "o">> >>,
       << <<"h", "i", "n", "d", "i">>,
          <<"n", "a", "m", "a", "s", "t", "e">> >>,
       << <<"j", "a", "p", "a", "n", "e", "s", "e">>,
          <<"k", "o", "n", "n", "i", "c", "h", "i", "w", "a">> >>,
       << <<"s", "w", "a", "h", "i", "l", "i">>,
          <<"h", "u", "j", "a", "m", "b", "o">> >>,
       << <<"t", "h", "a", "i">>,
          <<"s", "w", "a", "d", "i", "k", "a", "p">> >>
    >>

\* The fallback template, "Sorry I can't speak {0}, still, hello!".
FallbackTemplate ==
    <<"S", "o", "r", "r", "y", " ", "I", " ", "c", "a", "n", "'", "t", " ", "s", "p", "e", "a", "k", " ", "{", "0", "}", ",", " ", "s", "t", "i", "l", "l", ",", " ", "h", "e", "l", "l", "o", "!">>

\* The default of the parameter: language="english".
DefaultLanguage == <<"e", "n", "g", "l", "i", "s", "h">>

Placeholder == <<"{", "0", "}">>

\* template.format(arg): every {0} of the template becomes arg.
RECURSIVE format(_, _)
format(template, arg) ==
    IF template = << >> THEN << >>
    ELSE IF startswith(template, Placeholder)
         THEN arg \o format(SubSeq(template, Len(Placeholder) + 1, Len(template)), arg)
         ELSE <<Head(template)>> \o format(Tail(template), arg)

\* dict.get(key, default) on a dict given as <<key, value>> pairs.
DictGet(d, key, default) ==
    IF \E i \in DOMAIN d : d[i][1] = key
    THEN d[CHOOSE i \in DOMAIN d : d[i][1] = key][2]
    ELSE default

\* hello() with a lookup that ignores letter case.
hello_caseless(args) ==
    LET language == IF args = << >> THEN DefaultLanguage ELSE args[1]
    IN  DictGet(GreetingTable, lower(language), format(FallbackTemplate, language))

\* hello(language="english"); args is the tuple of positional arguments of
\* the call, << >> or <<language>>.
hello(args) ==
    LET language == IF args = << >> THEN DefaultLanguage ELSE args[1]
    IN  DictGet(GreetingTable, language, format(FallbackTemplate, language))

----------------------------------------------------------------------------
(* rest.py: the names that occur, as strings.                              *)

S_get == <<"g", "e", "t">>
S_post == <<"p", "o", "s", "t">>
S_head == <<"h", "e", "a", "d">>
S_options == <<"o", "p", "t", "i", "o", "n", "s">>
S_put == <<"p", "u", "t">>
S_delete == <<"d", "e", "l", "e", "t", "e">>
S_dispatch == <<"d", "i", "s", "p", "a", "t", "c", "h">>
S_helper == <<"h", "e", "l", "p", "e", "r">>
S_GET == <<"G", "E", "T">>
S_POST == <<"P", "O", "S", "T">>
S_HEAD == <<"H", "E", "A", "D">>
S_OPTIONS == <<"O", "P", "T", "I", "O", "N", "S">>
S_PUT == <<"P", "U", "T">>
S_DELETE == <<"D", "E", "L", "E", "T", "E">>
S_DISPATCH == <<"D", "I", "S", "P", "A", "T", "C", "H">>
S_HELPER == <<"H", "E", "L", "P", "E", "R">>
S_PATCH == <<"P", "A", "T", "C", "H">>
S_Head_mixed == <<"H", "e", "a", "d">>
S_Options_mixed == <<"O", "p", "t", "i", "o", "n", "s">>
S_mangled_not_allowed == <<"_", "R", "e", "s", "o", "u", "r", "c", "e", "_", "_", "n", "o", "t", "_", "a", "l", "l", "o", "w", "e", "d">>
S_mangled_default_head == <<"_", "R", "e", "s", "o", "u", "r", "c", "e", "_", "_", "d", "e", "f", "a", "u", "l", "t", "_", "h", "e", "a", "d">>
S_mangled_default_options == <<"_", "R", "e", "s", "o", "u", "r", "c", "e", "_", "_", "d", "e", "f", "a", "u", "l", "t", "_", "o", "p", "t", "i", "o", "n", "s">>
S_mangled_no_method == <<"_", "R", "e", "s", "o", "u", "r", "c", "e", "_", "_", "n", "o", "_", "m", "e", "t", "h", "o", "d">>
S_mangled_dispatch == <<"_", "R", "e", "s", "o", "u", "r", "c", "e", "_", "_", "d", "i", "s", "p", "a", "t", "c", "h">>
S_underscore_helper == <<"_", "H", "E", "L", "P", "E", "R">>
S_empty == << >>

----------------------------------------------------------------------------
(* rest.py: the framework's value objects, as far as rest.py uses them.    *)

\* django.http.HttpResponse(content, status): a status code, a body and
\* headers (a set of <<name, value>> pairs; only Allow is ever set here).
HttpResponse(content, status) ==
    [type |-> "HttpResponse", status_code |-> status,
     content |-> content, headers |-> {}]

\* django.http.HttpResponseNotAllowed(permitted_methods): status 405 and
\* Allow: ', '.join(permitted_methods).
HttpResponseNotAllowed(permitted_methods) ==
    [type |-> "HttpResponse", status_code |-> 405, content |-> << >>,
     headers |-> {<<"Allow", join(<<",", " ">>, permitted_methods)>>}]

\* The str '' that __default_head returns for a get() result that is no
\* HttpResponse.
EmptyStr == [type |-> "str", status_code |-> 0, content |-> << >>, headers |-> {}]

\* A value a handler returned that is no HttpResponse.
OtherValue == [type |-> "other", status_code |-> 0, content |-> << >>, headers |-> {}]

\* An exception leaving dispatch instead of a return value.
Raised(exc) == [type |-> exc, status_code |-> 0, content |-> << >>, headers |-> {}]

\* isinstance(response, HttpResponse)
IsHttpResponse(r) == r.type = "HttpResponse"

----------------------------------------------------------------------------
(* rest.py: Resource and the handler classes derived from it.              *)

\* METHODS = sorted(('get', 'post', 'head', 'options', 'put', 'delete'))
METHODS == sorted(<<S_get, S_post, S_head, S_options, S_put, S_delete>>)

\* The attributes every instance has from Resource itself: the classmethod
\* dispatch and the name-mangled private methods.
ResourceAttributes ==
    {S_dispatch, S_mangled_not_allowed, S_mangled_default_head,
     S_mangled_default_options, S_mangled_no_method, S_mangled_dispatch}

\* The public methods a derived class may define (class docstring): any of
\* the six verbs, and an implementation method without a leading underscore.
HandlerNames == Range(METHODS) \cup {S_helper}

\* What a derived class's get() returns: a response built for the call
\* ("fresh"), one response object the application keeps and returns on every
\* call ("cached"), or a value that is no HttpResponse ("other").
GetReturns == {"fresh", "cached", "other"}

\* The status codes get() answers with.
GetStatuses == {200, 404}

\* The derived classes: the methods defined, and what get() does.
HandlerClasses ==
    {c \in [defines : SUBSET HandlerNames, getReturns : GetReturns,
            getStatus : GetStatuses] :
        S_get \notin c.defines => c.getReturns = "fresh" /\ c.getStatus = 200}

\* The response object an application with a "cached" get() keeps.
InitialCached(c) == HttpResponse(S_get, c.getStatus)

\* hasattr(self, name)
hasattr(c, name) == name \in c.defines \cup ResourceAttributes

\* A call of the derived class's method `name`: the value returned, and
\* whether it is the application's kept object (ref = "cached") or a new one.
CallHandler(c, name, cached) ==
    IF name = S_get
    THEN CASE c.getReturns = "fresh" ->
                [result |-> HttpResponse(S_get, c.getStatus), ref |-> "new"]
           [] c.getReturns = "cached" ->
                [result |-> cached, ref |-> "cached"]
           [] OTHER ->
                [result |-> OtherValue, ref |-> "new"]
    ELSE [result |-> HttpResponse(name, 200), ref |-> "new"]

\* A set of strings as a sorted tuple.
RECURSIVE SetToSeq(_)
SetToSeq(S) ==
    IF S = {} THEN << >>
    ELSE LET x == CHOOSE y \in S : TRUE IN <<x>> \o SetToSeq(S \ {x})

\* [x[0] for x in inspect.getmembers(self, predicate=inspect.ismethod)]:
\* the names of the instance's methods, sorted by name.
getmembers(c) == sorted(SetToSeq(c.defines \cup ResourceAttributes))

\* (k.upper() for k in list)
UpperAll(list) == [i \in DOMAIN list |-> upper(list[i])]

\* __not_allowed without the HEAD that a defined get implies.
Resource__not_allowed_no_head(c) ==
    HttpResponseNotAllowed(
        UpperAll(SelectSeq(METHODS, LAMBDA method : hasattr(c, method))))

\* Resource.__not_allowed
Resource__not_allowed(c) ==
    LET allow  == SelectSeq(METHODS, LAMBDA method : hasattr(c, method))
        allow2 == IF S_get \in Range(allow) /\ S_head \notin Range(allow)
                  THEN Append(allow, S_head)
                  ELSE allow
    IN  HttpResponseNotAllowed(UpperAll(allow2))

\* Resource.__default_head: the response, and the application's kept object
\* after the call.
Resource__default_head(c, cached) ==
    LET got == CallHandler(c, S_get, cached)
    IN  IF ~IsHttpResponse(got.result)
        THEN [response |-> EmptyStr, cached |-> cached]
        ELSE LET response == [got.result EXCEPT !.content = << >>,
                                                 !.status_code = 200]
             IN  [response |-> response,
                  cached   |-> IF got.ref = "cached" THEN response ELSE cached]

\* __default_options listing what __not_allowed lists: HEAD too when get is
\* defined.
Resource__default_options_as_allowed(c) ==
    [HttpResponse(<< >>, 200) EXCEPT !.headers = Resource__not_allowed(c).headers]

\* Resource.__default_options
Resource__default_options(c) ==
    LET names == SelectSeq(getmembers(c), LAMBDA x : x \in Range(METHODS))
    IN  [HttpResponse(<< >>, 200) EXCEPT
            !.headers = {<<"Allow", join(<<",", " ">>, UpperAll(names))>>}]

\* Resource.__no_method: the response, the kept object, and the private
\* methods run.
Resource__no_method(c, request, cached) ==
    IF request.method = S_HEAD /\ hasattr(c, S_get)
    THEN LET r == Resource__default_head(c, cached)
         IN  [response |-> r.response, cached |-> r.cached,
              route |-> <<"__no_method", "__default_head">>]
    ELSE IF request.method = S_OPTIONS
    THEN [response |-> Resource__default_options(c), cached |-> cached,
          route |-> <<"__no_method", "__default_options">>]
    ELSE [response |-> Resource__not_allowed(c), cached |-> cached,
          route |-> <<"__no_method", "__not_allowed">>]

\* The depth of nested calls at which the interpreter raises RuntimeError
\* (maximum recursion depth exceeded).
RecursionLimit == 3

\* Resource.dispatch(cls, request) and Resource.__dispatch(self, request).
\* cls() is a new instance without state of its own, so the class stands for
\* it. The result: the response, the application's kept object, the names
\* looked up with getattr(self, method, ...), the attributes so found and
\* called, and the private methods run.
\* The result r of a callee, as the result of a caller that looked up and
\* called the names in `names` and ran the private methods in `ran` first.
After(names, found, ran, r) ==
    [response |-> r.response, cached |-> r.cached,
     looked |-> names \o r.looked, called |-> found \o r.called,
     route |-> ran \o r.route]

\* A check for the double underscore of the private names only.
IsPrivate_double(method) == startswith(method, <<"_", "_">>)

\* method.startswith('_')
IsPrivate(method) == startswith(method, <<"_">>)

\* A lookup confined to the six verbs.
getattr_verbs_only(c, method) ==
    IF method \notin Range(METHODS) \/ ~hasattr(c, method) THEN "__no_method"
    ELSE "handler"

\* getattr(self, method, self.__no_method): the default when the instance
\* has no such attribute, else a method of the derived class or the
\* inherited classmethod dispatch (the other inherited names hold a capital
\* letter, and a lower-cased name equals none of them).
getattr(c, method) ==
    IF ~hasattr(c, method) THEN "__no_method"
    ELSE IF method \in c.defines THEN "handler"
    ELSE "dispatch"

RECURSIVE dispatch(_, _, _, _)
RECURSIVE Resource__dispatch(_, _, _, _)
Resource__dispatch(c, request, cached, depth) ==
    LET method == lower(request.method)
    IN  IF IsPrivate(method)
        THEN [response |-> Resource__not_allowed(c), cached |-> cached,
              looked |-> << >>, called |-> << >>,
              route |-> <<"__dispatch", "__not_allowed">>]
        ELSE IF getattr(c, method) = "__no_method"
        THEN After(<<method>>, << >>, <<"__dispatch">>,
                   [looked |-> << >>, called |-> << >>] @@
                   Resource__no_method(c, request, cached))
        ELSE IF getattr(c, method) = "handler"
        THEN LET r == CallHandler(c, method, cached)
             IN  [response |-> r.result, cached |-> cached,
                  looked |-> <<method>>, called |-> <<method>>,
                  route |-> <<"__dispatch">>]
        ELSE After(<<method>>, <<method>>, <<"__dispatch">>,
                   dispatch(c, request, cached, depth + 1))

dispatch(c, request, cached, depth) ==
    IF depth > RecursionLimit
    THEN [response |-> Raised("RuntimeError"), cached |-> cached,
          looked |-> << >>, called |-> << >>, route |-> << >>]
    ELSE Resource__dispatch(c, request, cached, depth)

----------------------------------------------------------------------------
(* The requests a client may send.                                         *)

RequestMethods ==
    {S_GET, S_POST, S_HEAD, S_OPTIONS, S_PUT, S_DELETE, S_PATCH,
     S_get, S_head, S_Head_mixed, S_options, S_Options_mixed,
     S_DISPATCH, S_dispatch, S_HELPER,
     S_mangled_not_allowed, S_mangled_default_head, S_mangled_dispatch,
     S_underscore_helper, S_empty}

\* The longest language name hello() is called with, beyond the listed ones.
MaxNameLen == 3

\* The characters of those names.
NameChars == {"e", "E", "h", "{", " "}

RECURSIVE StringsUpTo(_)
StringsUpTo(n) ==
    IF n = 0 THEN {<< >>}
    ELSE LET shorter == StringsUpTo(n - 1)
         IN  shorter \cup {Append(s, ch) : s \in shorter, ch \in NameChars}

\* The positional arguments hello() is called with: none, a key of the
\* table, a name that differs from a key in case or by a blank, a short
\* arbitrary string.
HelloArgs ==
    {<< >>}
    \cup {<<GreetingTable[i][1]>> : i \in DOMAIN GreetingTable}
    \cup {<<upper(GreetingTable[i][1])>> : i \in DOMAIN GreetingTable}
    \cup {<<Append(GreetingTable[i][1], " ")>> : i \in DOMAIN GreetingTable}
    \cup {<<s>> : s \in StringsUpTo(MaxNameLen)}
    \cup {<< <<"k", "l", "i", "n", "g", "o", "n">> >>,
          << <<"E", "n", "g", "l", "i", "s", "h">> >>}

----------------------------------------------------------------------------
(* The state machine: one handler class serving requests one after the     *)
(* other, and calls of hello().                                            *)

VARIABLES
    cls,            \* the handler class bound to the URL
    cached,         \* the response object an application with a "cached" get() keeps
    served,         \* whether a request has been dispatched
    request,        \* the last request
    response,       \* what dispatch returned for it
    looked,         \* the names it looked up with getattr
    called,         \* the attributes it found and called
    route,          \* the private methods it ran
    firstRequest,   \* the first request dispatched
    firstResponse,  \* what dispatch returned for the first request
    helloCalled,    \* whether hello() has been called
    helloArgs,      \* the arguments of the last call of hello()
    greeting        \* what it returned

resourceVars == <<cls, cached, served, request, response, looked, called, route,
                  firstRequest, firstResponse>>
helloVars == <<helloCalled, helloArgs, greeting>>
vars == <<resourceVars, helloVars>>

NoRequest == [method |-> << >>]
NoResponse == [type |-> "none", status_code |-> 0, content |-> << >>, headers |-> {}]

InitResource(classes) ==
    /\ cls \in classes
    /\ cached = InitialCached(cls)
    /\ served = FALSE
    /\ request = NoRequest
    /\ response = NoResponse
    /\ looked = << >>
    /\ called = << >>
    /\ route = << >>
    /\ firstRequest = NoRequest
    /\ firstResponse = NoResponse

InitHello ==
    /\ helloCalled = FALSE
    /\ helloArgs = << >>
    /\ greeting = << >>

Init == InitResource(HandlerClasses) /\ InitHello

\* The framework calls the URL's target, cls.dispatch, with a request.
Serve(m) ==
    \E req \in {[method |-> m]} : \E r \in {dispatch(cls, req, cached, 1)} :
        /\ request' = req
        /\ response' = r.response
        /\ cached' = r.cached
        /\ looked' = r.looked
        /\ called' = r.called
        /\ route' = r.route
        /\ served' = TRUE
        /\ UNCHANGED <<cls, helloVars>>

Dispatch(m) ==
    /\ Serve(m)
    /\ UNCHANGED <<firstRequest, firstResponse>>

\* The same, with the first request and its response kept for comparison
\* with the later ones.
ObservedDispatch(m) ==
    /\ Serve(m)
    /\ firstRequest' = IF served THEN firstRequest ELSE request'
    /\ firstResponse' = IF served THEN firstResponse ELSE response'

\* A call hello(*args).
Hello(args) ==
    /\ helloCalled' = TRUE
    /\ helloArgs' = args
    /\ greeting' = hello(args)
    /\ UNCHANGED resourceVars

DispatchRequest == \E m \in RequestMethods : Dispatch(m)

CallHello == \E args \in HelloArgs : Hello(args)

Next == DispatchRequest

Spec == Init /\ [][Next]_vars

\* hello() alone, beside a class that defines nothing.
InitOnlyHello ==
    /\ InitResource({c \in HandlerClasses : c.defines = {}})
    /\ InitHello

NextHello == CallHello

SpecHello == InitOnlyHello /\ [][NextHello]_vars

\* A class serving a session of requests, the first one kept. The classes
\* are those defining at most get and post.
SessionClasses == {c \in HandlerClasses : c.defines \subseteq {S_get, S_post}}

InitSession == InitResource(SessionClasses) /\ InitHello

ObservedRequest == \E m \in RequestMethods : ObservedDispatch(m)

NextSession == ObservedRequest

SpecSession == InitSession /\ [][NextSession]_vars

----------------------------------------------------------------------------
(* What the properties below read off a response.                          *)

\* The value of the response's Allow header.
AllowOf(r) == (CHOOSE h \in r.headers : h[1] = "Allow")[2]

HasAllow(r) == \E h \in r.headers : h[1] = "Allow"

\* header.split(', ')
RECURSIVE Split(_)
Split(s) ==
    IF \E i \in 1..(Len(s) - 1) : SubSeq(s, i, i + 1) = <<",", " ">>
    THEN LET i == CHOOSE j \in 1..(Len(s) - 1) :
                    /\ SubSeq(s, j, j + 1) = <<",", " ">>
                    /\ \A k \in 1..(j - 1) : SubSeq(s, k, k + 1) # <<",", " ">>
         IN  <<SubSeq(s, 1, i - 1)>> \o Split(SubSeq(s, i + 2, Len(s)))
    ELSE <<s>>

\* The verbs an Allow header lists, in order; an empty header lists none.
Listed(header) == IF header = << >> THEN << >> ELSE Split(header)

\* Whether part occurs in s as a contiguous substring.
Contains(s, part) ==
    \E i \in 1..(Len(s) - Len(part) + 1) : SubSeq(s, i, i + Len(part) - 1) = part

NoDuplicates(list) == Cardinality(Range(list)) = Len(list)

\* The six verbs, each with its upper-cased name.
VerbNames ==
    {<<S_delete, S_DELETE>>, <<S_get, S_GET>>, <<S_head, S_HEAD>>,
     <<S_options, S_OPTIONS>>, <<S_post, S_POST>>, <<S_put, S_PUT>>}

Verbs == {v[1] : v \in VerbNames}

\* The upper-cased names of the verbs the class defines.
DefinedVerbsUpper(c) == {v[2] : v \in {w \in VerbNames : w[1] \in c.defines}}

\* The last private method the last dispatch ran.
LastRan == IF route = << >> THEN "" ELSE route[Len(route)]

----------------------------------------------------------------------------
(* The properties.                                                         *)

\* C1 as stated: dispatch calls an attribute of the instance by the request's
\* method name only when the lower-cased name is one of the six verbs; a name
\* matching another public attribute (a helper, dispatch) is never called.
C1_OnlyVerbsCalled ==
    served => \A i \in DOMAIN called : called[i] \in Verbs

\* C1 as amended: dispatch calls the attribute named by the lower-cased
\* method name exactly when that name has no leading underscore and the
\* instance has a public attribute of that name, one of the six verbs or not
\* (a helper of the derived class, dispatch itself); a name the instance has
\* no attribute for takes the no-method path.
C1_PublicAttributesCalled ==
    served =>
        LET name == lower(request.method)
            private == name # << >> /\ name[1] = "_"
            public == (cls.defines \cup {S_dispatch})
        IN  /\ (~private /\ name \in public) =>
                    /\ called # << >>
                    /\ called[1] = name
                    /\ looked[1] = name
            /\ (~private /\ name \notin public) =>
                    /\ called = << >>
                    /\ looked = <<name>>
                    /\ Len(route) = 3
                    /\ route[2] = "__no_method"
            /\ private => called = << >>

\* C1 witness: a helper of the derived class, no verb, was called directly.
C1_Witness ==
    /\ served
    /\ request.method = S_HELPER
    /\ called = <<S_helper>>
    /\ response = HttpResponse(S_helper, 200)

\* C2 as stated: with get defined (returning a response) and head not, a HEAD
\* request returns a response with an empty body and the status of the
\* response get produced, whatever that status is.
C2_HeadKeepsStatus ==
    (/\ served
     /\ request.method = S_HEAD
     /\ S_get \in cls.defines
     /\ S_head \notin cls.defines
     /\ cls.getReturns = "fresh")
    => /\ IsHttpResponse(response)
       /\ response.content = << >>
       /\ response.status_code = cls.getStatus

\* C3: the not-allowed response has status 405 and its Allow header lists
\* exactly the upper-cased verbs the class defines, plus HEAD when get is
\* defined and head is not; a class defining only get answers PUT with
\* Allow: GET, HEAD.
C3_NotAllowed ==
    (served /\ LastRan = "__not_allowed") =>
        /\ IsHttpResponse(response)
        /\ response.status_code = 405
        /\ HasAllow(response)
        /\ NoDuplicates(Listed(AllowOf(response)))
        /\ Range(Listed(AllowOf(response))) =
              DefinedVerbsUpper(cls) \cup
              (IF S_get \in cls.defines /\ S_head \notin cls.defines
               THEN {S_HEAD} ELSE {})
        /\ (cls.defines \cap Verbs = {S_get} /\ request.method = S_PUT) =>
              AllowOf(response) = <<"G", "E", "T", ",", " ", "H", "E", "A", "D">>

\* C3 witness: a class defining only get answered PUT with 405 and
\* Allow: GET, HEAD.
C3_Witness ==
    /\ served
    /\ cls.defines = {S_get}
    /\ request.method = S_PUT
    /\ LastRan = "__not_allowed"
    /\ response.status_code = 405
    /\ Listed(AllowOf(response)) = <<S_GET, S_HEAD>>

\* C4: for a class that does not define options, an OPTIONS request returns
\* status 200 with an Allow header listing exactly the upper-cased names of
\* the verb methods the class defines.
C4_Options ==
    (served /\ request.method = S_OPTIONS /\ S_options \notin cls.defines) =>
        /\ IsHttpResponse(response)
        /\ response.status_code = 200
        /\ HasAllow(response)
        /\ NoDuplicates(Listed(AllowOf(response)))
        /\ Range(Listed(AllowOf(response))) = DefinedVerbsUpper(cls)

\* C4 witness: a class defining get and post answered OPTIONS with 200 and
\* exactly GET and POST.
C4_Witness ==
    /\ served
    /\ cls.defines = {S_get, S_post}
    /\ request.method = S_OPTIONS
    /\ response.status_code = 200
    /\ Range(Listed(AllowOf(response))) = {S_GET, S_POST}

\* C5 as stated: a class defining no methods answers every request other than
\* OPTIONS with 405 and an empty Allow header, and OPTIONS with 200 and an
\* empty Allow header.
C5_EmptyClass ==
    (served /\ cls.defines = {}) =>
        /\ IsHttpResponse(response)
        /\ response.status_code = (IF request.method = S_OPTIONS THEN 200 ELSE 405)
        /\ HasAllow(response)
        /\ AllowOf(response) = << >>

\* C6: a request whose lower-cased method name begins with an underscore
\* causes no attribute lookup and no call by that name, and gets the 405
\* not-allowed response.
C6_PrivateRejected ==
    (served /\ request.method # << >> /\ request.method[1] = "_") =>
        /\ looked = << >>
        /\ called = << >>
        /\ route = <<"__dispatch", "__not_allowed">>
        /\ IsHttpResponse(response)
        /\ response.status_code = 405

\* C6 witness: the mangled name of __dispatch was sent and answered 405
\* without a lookup.
C6_Witness ==
    /\ served
    /\ request.method = S_mangled_dispatch
    /\ looked = << >>
    /\ response.status_code = 405

\* C7 as stated: dispatch returns a response for every class and method
\* name; a name that is no verb and no method of the class never ends in an
\* exception or unbounded recursion, only in a 405 response.
C7_Total ==
    served =>
        /\ response.type # "RuntimeError"
        /\ (lower(request.method) \notin Verbs \cup cls.defines) =>
              (IsHttpResponse(response) /\ response.status_code = 405)

\* C8 as stated: a request equivalent to the first one gets a response
\* equivalent to the first one's, whatever was dispatched in between.
C8_Idempotent ==
    (served /\ request = firstRequest) => response = firstResponse

\* C9: hello returns the mapped greeting for every key of the table, the
\* English greeting without an argument, and for any other string (case
\* matters) the fallback sentence with the name embedded verbatim.
C9_Hello ==
    helloCalled =>
        LET language == IF helloArgs = << >>
                        THEN <<"e", "n", "g", "l", "i", "s", "h">>
                        ELSE helloArgs[1]
            known == \E i \in DOMAIN GreetingTable : GreetingTable[i][1] = language
        IN  /\ \A i \in DOMAIN GreetingTable :
                    GreetingTable[i][1] = language => greeting = GreetingTable[i][2]
            /\ helloArgs = << >> => greeting = <<"h", "e", "l", "l", "o">>
            /\ ~known =>
                    /\ greeting = <<"S", "o", "r", "r", "y", " ", "I", " ", "c", "a", "n", "'", "t", " ", "s", "p", "e", "a", "k", " ">> \o language \o <<",", " ", "s", "t", "i", "l", "l", ",", " ", "h", "e", "l", "l", "o", "!">>
                    /\ Contains(greeting, language)

\* C9 witness: hello("English") returned the fallback sentence naming English.
C9_Witness ==
    /\ helloCalled
    /\ helloArgs = << <<"E", "n", "g", "l", "i", "s", "h">> >>
    /\ greeting = <<"S", "o", "r", "r", "y", " ", "I", " ", "c", "a", "n", "'", "t", " ", "s", "p", "e", "a", "k", " ">> \o <<"E", "n", "g", "l", "i", "s", "h">> \o <<",", " ", "s", "t", "i", "l", "l", ",", " ", "h", "e", "l", "l", "o", "!">>

\* C10 as stated: two requests whose method names differ only in letter case
\* get equivalent responses (here for a get() that builds its response anew,
\* so that nothing a request wrote can make the difference).
C10_CaseInsensitive ==
    (/\ served
     /\ cls.getReturns = "fresh"
     /\ lower(request.method) = lower(firstRequest.method))
    => response = firstResponse

====
